---- MODULE Spec2Model ----
(***************************************************************************)
(* Model of the serial protocol engine of deej-with-buttons                *)
(* (src/pkg/deej/serial.go): the SerialIO connection life cycle (Start,    *)
(* Stop, close, the dispatcher loop and its reader), the line grammar, the *)
(* slider and button trackers of handleLine / handleButtons, the fan-out   *)
(* to the slider subscribers and the configuration-reload goroutine.       *)
(*                                                                         *)
(* Goroutines are interleaved statement by statement wherever a statement  *)
(* reads or writes a field of SerialIO that another goroutine can touch;   *)
(* the fields are not protected by any lock in the source.  A run-time     *)
(* panic (nil connection, index out of range, panic(err)) ends the process *)
(* and is modelled by the flag crashed, after which nothing moves.         *)
(*                                                                         *)
(* Slider scalars are kept in hundredths (0.50 is 50, the unset -1.0 is    *)
(* -100), thresholds in thousandths.                                       *)
(***************************************************************************)
EXTENDS Integers, Sequences, FiniteSets, TLC

\* ------------------------------------------------------------------ bounds
\* successful serial.Open calls (each launches one dispatcher and one reader)
MaxStarts == 2
\* lines the readers read from the links, over the whole run
MaxLines == 2
\* configuration-change notifications
MaxReloads == 1
\* Start / Stop calls made by the owner of the SerialIO (not by the reload goroutine)
MaxCalls == 3
\* subscribers registered through SubscribeToSliderMoveEvents
MaxSubs == 1

\* ------------------------------------------------------------- wire lines
\* A line is a sequence of one-character strings, as ReadString('\n') returns it.
CR == "\r"
LF == "\n"
Digits == {"0", "1", "2", "3", "4", "5", "6", "7", "8", "9"}

\* The lines a link can carry in the model (firmware output of
\* sendSliderValues, a torn first line, boot garbage, a bare-LF line).
LINES ==
  << <<"0", CR, LF>>,                                          \* 1: one slider at 0
     <<"5", "1", "2", "|", "1", "0", "2", "3", CR, LF>>,       \* 2: two sliders
     <<"5", "4", "5", "|", "1", "0", "2", "3", CR, LF>>,       \* 3: first slider moved by 0.03
     <<"5", "1", "6", "|", "0", CR, LF>>,                      \* 4: first within noise, second moved
     <<"4", "5", "5", "8", "|", "9", "2", "5", CR, LF>>,       \* 5: torn first field
     <<"~", "0", "~", "0", "~", CR, LF>>,                      \* 6: two buttons released
     <<"~", "0", "~", "1", "~", CR, LF>>,                      \* 7: second button pressed
     <<"~", "1", "~", CR, LF>>,                                \* 8: one button pressed
     <<"b", "o", "o", "t", CR, LF>>,                           \* 9: garbage
     <<"5", "1", "2", LF>> >>                                  \* 10: slider digits without CR

LineIds == 1..Len(LINES)

\* ------------------------------------------------------- string primitives
HasSuffix(s, suf) ==
  /\ Len(s) >= Len(suf)
  /\ SubSeq(s, Len(s) - Len(suf) + 1, Len(s)) = suf

\* strings.TrimSuffix
TrimSuffix(s, suf) ==
  IF HasSuffix(s, suf) THEN SubSeq(s, 1, Len(s) - Len(suf)) ELSE s

RECURSIVE TrimLeft(_, _)
TrimLeft(s, c) ==
  IF s # <<>> /\ Head(s) = c THEN TrimLeft(Tail(s), c) ELSE s

RECURSIVE TrimRight(_, _)
TrimRight(s, c) ==
  IF s # <<>> /\ s[Len(s)] = c THEN TrimRight(SubSeq(s, 1, Len(s) - 1), c) ELSE s

\* strings.Trim with a one-character cutset
Trim(s, c) == TrimRight(TrimLeft(s, c), c)

\* strings.Split on a one-character separator: even the empty string gives one field
RECURSIVE SplitFrom(_, _, _)
SplitFrom(s, sep, cur) ==
  IF s = <<>> THEN <<cur>>
  ELSE IF Head(s) = sep THEN <<cur>> \o SplitFrom(Tail(s), sep, <<>>)
  ELSE SplitFrom(Tail(s), sep, Append(cur, Head(s)))

Split(s, sep) == SplitFrom(s, sep, <<>>)

DigitVal(c) ==
  CASE c = "0" -> 0 [] c = "1" -> 1 [] c = "2" -> 2 [] c = "3" -> 3 [] c = "4" -> 4
    [] c = "5" -> 5 [] c = "6" -> 6 [] c = "7" -> 7 [] c = "8" -> 8 [] c = "9" -> 9

AllDigits(f) == \A i \in 1..Len(f) : f[i] \in Digits

RECURSIVE AtoiFrom(_, _)
AtoiFrom(f, acc) ==
  IF f = <<>> THEN acc ELSE AtoiFrom(Tail(f), acc * 10 + DigitVal(Head(f)))

\* strconv.Atoi with the error dropped: a field that is no number gives 0
Atoi(f) == IF f # <<>> /\ AllDigits(f) THEN AtoiFrom(f, 0) ELSE 0

\* expectedLinePattern: ^\d{1,4}(\|\d{1,4})*\r\n$
expectedLinePattern(s) ==
  /\ HasSuffix(s, <<CR, LF>>)
  /\ LET fs == Split(SubSeq(s, 1, Len(s) - 2), "|")
     IN \A i \in 1..Len(fs) : Len(fs[i]) \in 1..4 /\ AllDigits(fs[i])

\* buttonLinePattern: ^~\d(\~\d)*~\r\n$
buttonLinePattern(s) ==
  /\ HasSuffix(s, <<"~", CR, LF>>)
  /\ Len(s) >= 5
  /\ s[1] = "~"
  /\ LET fs == Split(SubSeq(s, 2, Len(s) - 3), "~")
     IN \A i \in 1..Len(fs) : Len(fs[i]) = 1 /\ AllDigits(fs[i])

\* handleLine's split of a slider line into its fields
SliderFields(s) == Split(TrimSuffix(s, <<CR, LF>>), "|")

\* handleButtons' trimming and split of a button line into its fields
ButtonFields(s) ==
  Split(Trim(TrimSuffix(TrimSuffix(s, <<CR, LF>>), <<"~">>), "~"), "~")

\* ------------------------------------------------------------ slider scalars
\* the "impossible value" -1.0 that handleLine stores to force an event
Unset == -100

Abs(x) == IF x < 0 THEN -x ELSE x

\* float32(number) / 1023.0 followed by util.NormalizeScalar: the scalar in [0, 1]
\* cut to two decimals, in hundredths.  util is not among the sources; the cut is
\* taken downwards and the raw values of LINES are chosen so that rounding to the
\* nearest hundredth gives the same scalars.
NormalizeScalar(number) ==
  LET h == (number * 100) \div 1023
  IN IF h > 100 THEN 100 ELSE IF h < 0 THEN 0 ELSE h

\* the epsilon bound to each noise reduction level, in thousandths
NoiseThreshold(level) ==
  CASE level = "low" -> 15
    [] level = "high" -> 35
    [] OTHER -> 25

\* util.SignificantlyDifferent: the two scalars differ by more than the epsilon
SignificantlyDifferent(old, new, level) ==
  Abs(old - new) * 10 > NoiseThreshold(level)

\* handleLine, lines 456-465: raw reading to the scalar that is compared and stored
normalizedScalar(number, invert) ==
  IF invert THEN 100 - NormalizeScalar(number) ELSE NormalizeScalar(number)

\* --------------------------------------------------------- configuration
\* deej.config as far as SerialIO reads it, with the values of config.yaml
BaseConfig == [port |-> "COM6", baud |-> 9600, invert |-> TRUE, noise |-> "high"]

\* the snapshots a reload can install: nothing SerialIO reads changed, baud rate
\* changed, port changed, noise level changed, inversion switched off
Snapshots ==
  { BaseConfig,
    [BaseConfig EXCEPT !.baud = 115200],
    [BaseConfig EXCEPT !.port = "COM7"],
    [BaseConfig EXCEPT !.noise = "default"],
    [BaseConfig EXCEPT !.invert = FALSE] }

\* serial.OpenOptions as far as it is compared: the zero value before the first Start
ZeroOptions == [port |-> "", baud |-> 0]

OptionsOf(c) == [port |-> c.port, baud |-> c.baud]

\* ------------------------------------------------------------------ state
Callers == {"client", "reload"}
DispIds == 1..MaxStarts
NoConn == 0

VARIABLES
  config,                      \* sio.deej.config
  connected,                   \* sio.connected
  conn,                        \* sio.conn: NoConn (nil) or the handle serial.Open returned
  connOptions,                 \* sio.connOptions
  openLinks,                   \* the handles opened and not yet closed
  nopened,                     \* successful serial.Open calls so far
  lastKnownNumSliders,
  currentSliderPercentValues,
  lastKnownNumButtons,
  currentButtonValues,
  sliderMoveConsumers,         \* number of channels appended by SubscribeToSliderMoveEvents
  gone,                        \* subscribers that have stopped receiving for good
  sublog,                      \* per subscriber, the events it has received
  disp,                        \* the dispatcher goroutines, one per successful Start
  rdr,                         \* the reader goroutine of each dispatcher
  pc,                          \* where the client and the reload goroutine are
  timers,                      \* delayed-reset goroutines: <<before line 179, before line 180>>
  nread, nreloads, ncalls,     \* bounded counters of the environment
  crashed,                     \* a goroutine panicked: the process is gone
  lastButtonFrame,             \* values of the last button frame handled to the end
  resyncDue,                   \* line 179 ran and no slider frame was started since
  buttonResyncDue,             \* line 180 ran and no button frame was started since
  cyc                          \* what the reload goroutine did for the last notification

trackers == <<lastKnownNumSliders, currentSliderPercentValues,
              lastKnownNumButtons, currentButtonValues>>
link == <<connected, conn, connOptions, openLinks, nopened>>
subscr == <<sliderMoveConsumers, gone, sublog>>
counters == <<nread, nreloads, ncalls>>
ghosts == <<lastButtonFrame, resyncDue, buttonResyncDue, cyc>>
vars == <<config, link, trackers, subscr, disp, rdr, pc, timers, counters, crashed, ghosts>>

\* a dispatcher that is not running a frame
IdleDisp ==
  [pc |-> "none", conn |-> NoConn, line |-> 0, seq |-> 0, idx |-> 0, events |-> <<>>,
   cons |-> 0, ci |-> 0, ei |-> 0,
   preCount |-> 0, preVals |-> <<>>, due |-> FALSE, hit |-> FALSE, reloaded |-> FALSE,
   presses |-> <<>>, prevFrame |-> <<>>, last |-> 0, prevLine |-> 0, ignored |-> FALSE]

IdleReader == [pc |-> "none", line |-> 0, seq |-> 0]

NoCycle == [active |-> FALSE, wasConnected |-> FALSE, changed |-> FALSE, target |-> ZeroOptions,
            stops |-> 0, starts |-> 0, result |-> "none", quiet |-> FALSE, client |-> "none"]

\* NewSerialIO, lines 60-79: disconnected, no subscriber, the reload goroutine waiting
Init ==
  /\ config = BaseConfig
  /\ connected = FALSE
  /\ conn = NoConn
  /\ connOptions = ZeroOptions
  /\ openLinks = {}
  /\ nopened = 0
  /\ lastKnownNumSliders = 0
  /\ currentSliderPercentValues = <<>>
  /\ lastKnownNumButtons = 0
  /\ currentButtonValues = <<>>
  /\ sliderMoveConsumers = 0
  /\ gone = {}
  /\ sublog = [s \in 1..MaxSubs |-> <<>>]
  /\ disp = [k \in DispIds |-> IdleDisp]
  /\ rdr = [k \in DispIds |-> IdleReader]
  /\ pc = [p \in Callers |-> IF p = "client" THEN "idle" ELSE "select"]
  /\ timers = <<0, 0>>
  /\ nread = 0
  /\ nreloads = 0
  /\ ncalls = 0
  /\ crashed = FALSE
  /\ lastButtonFrame = <<>>
  /\ resyncDue = FALSE
  /\ buttonResyncDue = FALSE
  /\ cyc = NoCycle

\* ------------------------------------------------------- Start and Stop
\* Start and Stop run on the goroutine that calls them: the client's or the
\* reload goroutine's.  Where a caller continues after the call returns.
AfterStop(p) == IF p = "client" THEN "idle" ELSE "start"
AfterStart(p) == IF p = "client" THEN "idle" ELSE "select"

\* what the reload goroutine's bookkeeping records of a call it makes
CycStop(p) == IF p = "reload" THEN [cyc EXCEPT !.stops = @ + 1] ELSE cyc
CycStart(p, res) ==
  IF p = "reload" THEN [cyc EXCEPT !.starts = @ + 1, !.result = res]
                  ELSE [cyc EXCEPT !.client = res]

\* The owner of the SerialIO calls Start or Stop.
ClientCall ==
  /\ ~crashed
  /\ pc["client"] = "idle"
  /\ ncalls < MaxCalls
  /\ ncalls' = ncalls + 1
  /\ \E op \in {"start", "stop"} : pc' = [pc EXCEPT !["client"] = op]
  /\ cyc' = [cyc EXCEPT !.quiet = FALSE]
  /\ UNCHANGED <<config, link, trackers, subscr, disp, rdr, timers, nread, nreloads,
                 crashed, lastButtonFrame, resyncDue,
                 buttonResyncDue>>

\* a Stop that signals whatever sio.connected says
StopBranchAlways(isConnected, p) == "stop_send"

\* Stop, line 145: where the call goes on the value read from sio.connected
StopBranch(isConnected, p) == IF isConnected THEN "stop_send" ELSE AfterStop(p)

\* Stop, lines 144-151, up to the send on stopChannel
Stop(p) ==
  /\ ~crashed
  /\ pc[p] = "stop"
  /\ pc' = [pc EXCEPT ![p] = StopBranch(connected, p)]
  /\ cyc' = CycStop(p)
  /\ UNCHANGED <<config, link, trackers, subscr, disp, rdr, timers, counters, crashed,
                 lastButtonFrame, resyncDue,
                 buttonResyncDue>>

\* a Start that goes on to open the link whatever sio.connected says
StartBranchAlways(isConnected, p) == "start_open"

\* Start, line 85: where the call goes on the value read from sio.connected
StartBranch(isConnected, p) == IF isConnected THEN AfterStart(p) ELSE "start_open"

\* Start, lines 85-88: refuse a second connection
Start(p) ==
  /\ ~crashed
  /\ pc[p] = "start"
  /\ pc' = [pc EXCEPT ![p] = StartBranch(connected, p)]
  /\ cyc' = IF StartBranch(connected, p) = "start_open"
              THEN cyc ELSE CycStart(p, "already active")
  /\ UNCHANGED <<config, link, trackers, subscr, disp, rdr, timers, counters, crashed,
                 lastButtonFrame, resyncDue,
                 buttonResyncDue>>

\* Start, lines 98-118: take the parameters from the configuration and open the link;
\* serial.Open fails or succeeds as the operating system decides
StartOpen(p) ==
  /\ ~crashed
  /\ pc[p] = "start_open"
  /\ connOptions' = OptionsOf(config)
  /\ \/ /\ conn' = NoConn
        /\ pc' = [pc EXCEPT ![p] = AfterStart(p)]
        /\ cyc' = CycStart(p, "open failed")
        /\ UNCHANGED <<openLinks, nopened>>
     \/ /\ nopened < MaxStarts
        /\ nopened' = nopened + 1
        /\ conn' = nopened + 1
        /\ openLinks' = openLinks \cup {nopened + 1}
        /\ pc' = [pc EXCEPT ![p] = "start_conn"]
        /\ cyc' = cyc
  /\ UNCHANGED <<config, connected, trackers, subscr, disp, rdr, timers, counters, crashed,
                 lastButtonFrame, resyncDue,
                 buttonResyncDue>>

\* the dispatcher slot the next go statement of Start uses
FreeDisp == CHOOSE k \in DispIds : disp[k].pc = "none" /\ \A j \in 1..(k - 1) : disp[j].pc # "none"

\* Start, lines 123-140: mark connected, launch the dispatcher goroutine, return nil
StartConn(p) ==
  /\ ~crashed
  /\ pc[p] = "start_conn"
  /\ connected' = TRUE
  /\ disp' = [disp EXCEPT ![FreeDisp] = [IdleDisp EXCEPT !.pc = "init"]]
  /\ pc' = [pc EXCEPT ![p] = AfterStart(p)]
  /\ cyc' = CycStart(p, "ok")
  /\ UNCHANGED <<config, conn, connOptions, openLinks, nopened, trackers, subscr, rdr,
                 timers, counters, crashed, lastButtonFrame, resyncDue,
                 buttonResyncDue>>

\* ------------------------------------------------- dispatcher and reader
\* a dispatcher back at its select, the frame it handled forgotten
AtSelect(d) ==
  [IdleDisp EXCEPT !.pc = "select", !.conn = d.conn, !.last = d.last, !.ignored = d.ignored]

\* dispatcher goroutine, lines 127-128: wrap sio.conn as it is now and launch the reader
DispInit(k) ==
  /\ ~crashed
  /\ disp[k].pc = "init"
  /\ disp' = [disp EXCEPT ![k] = [IdleDisp EXCEPT !.pc = "select", !.conn = conn]]
  /\ rdr' = [rdr EXCEPT ![k] = [IdleReader EXCEPT !.pc = "read"]]
  /\ UNCHANGED <<config, link, trackers, subscr, pc, timers, counters, crashed, ghosts>>

\* readLine, lines 219-229: ReadString on the wrapped connection.  A nil connection
\* panics; a closed link gives an error; an open link gives a line or an error.
\* lines are the lines the link can carry.
ReadLine(k, lines) ==
  /\ ~crashed
  /\ rdr[k].pc = "read"
  /\ \/ /\ disp[k].conn = NoConn
        /\ crashed' = TRUE
        /\ UNCHANGED <<rdr, nread>>
     \/ /\ disp[k].conn # NoConn
        /\ rdr' = [rdr EXCEPT ![k] = [IdleReader EXCEPT !.pc = "done"]]
        /\ UNCHANGED <<crashed, nread>>
     \/ /\ disp[k].conn \in openLinks
        /\ nread < MaxLines
        /\ \E l \in lines :
             rdr' = [rdr EXCEPT ![k] = [pc |-> "send", line |-> l, seq |-> nread + 1]]
        /\ nread' = nread + 1
        /\ UNCHANGED crashed
  /\ UNCHANGED <<config, link, trackers, subscr, disp, pc, timers, nreloads, ncalls, ghosts>>

\* dispatcher select, line 134 with readLine line 236: the reader hands its line over
RecvLine(k) ==
  /\ ~crashed
  /\ disp[k].pc = "select"
  /\ rdr[k].pc = "send"
  /\ disp' = [disp EXCEPT ![k] = [@ EXCEPT !.pc = "match", !.line = rdr[k].line,
                                            !.seq = rdr[k].seq]]
  /\ rdr' = [rdr EXCEPT ![k] = [IdleReader EXCEPT !.pc = "read"]]
  /\ UNCHANGED <<config, link, trackers, subscr, pc, timers, counters, crashed, ghosts>>

\* dispatcher select, line 132 with Stop line 147: one caller's send on the shared
\* stopChannel is received by one dispatcher that is at its select
RecvStop(k, p) ==
  /\ ~crashed
  /\ disp[k].pc = "select"
  /\ pc[p] = "stop_send"
  /\ disp' = [disp EXCEPT ![k] = [@ EXCEPT !.pc = "close"]]
  /\ pc' = [pc EXCEPT ![p] = AfterStop(p)]
  /\ UNCHANGED <<config, link, trackers, subscr, rdr, timers, counters, crashed, ghosts>>

\* a Close that leaves the link open
StillOpen(links, c) == links

\* close, line 205: the links that are open once Close has run on handle c
LinksAfterClose(links, c) == links \ {c}

\* close, line 205: sio.conn.Close(); a nil sio.conn panics, a handle that is
\* already closed only logs the error
closeConn(k) ==
  /\ ~crashed
  /\ disp[k].pc = "close"
  /\ IF conn = NoConn
       THEN /\ crashed' = TRUE
            /\ UNCHANGED <<disp, openLinks>>
       ELSE /\ openLinks' = LinksAfterClose(openLinks, conn)
            /\ disp' = [disp EXCEPT ![k] = [@ EXCEPT !.pc = "closed"]]
            /\ UNCHANGED crashed
  /\ UNCHANGED <<config, connected, conn, connOptions, nopened, trackers, subscr, rdr, pc,
                 timers, counters, ghosts>>

\* close, lines 211-212, and back to the select: the loop has no exit
closeDone(k) ==
  /\ ~crashed
  /\ disp[k].pc = "closed"
  /\ conn' = NoConn
  /\ connected' = FALSE
  /\ disp' = [disp EXCEPT ![k] = AtSelect(@)]
  /\ UNCHANGED <<config, connOptions, openLinks, nopened, trackers, subscr, rdr, pc,
                 timers, counters, crashed, ghosts>>

\* ------------------------------------------------------------- handleLine
\* the "impossible value" handleButtons stores (-1.0 assigned to an int)
UnsetButton == -1

\* the parsed readings of a line that matches one of the two grammars
SliderNumbersOf ==
  [l \in LineIds |-> LET fs == SliderFields(LINES[l]) IN [i \in 1..Len(fs) |-> Atoi(fs[i])]]
ButtonNumbersOf ==
  [l \in LineIds |-> LET fs == ButtonFields(LINES[l]) IN [i \in 1..Len(fs) |-> Atoi(fs[i])]]
SliderNumbers(l) == SliderNumbersOf[l]
ButtonNumbers(l) == ButtonNumbersOf[l]

\* lines 411 and 419: the grammar each line of the table matches
MatchesButtonPattern == [l \in LineIds |-> buttonLinePattern(LINES[l])]
MatchesExpectedPattern == [l \in LineIds |-> expectedLinePattern(LINES[l])]
IsButtonLine(l) == MatchesButtonPattern[l]
IsSliderLine(l) == ~MatchesButtonPattern[l] /\ MatchesExpectedPattern[l]

\* lines 451 and 362: the first reading is out of range
SliderFirstValueBad(number) == number > 1023
ButtonFirstValueBad(number) == number > 9

\* a slider line that passes the grammar and the first-value check
WellFormedSlider(l) == IsSliderLine(l) /\ ~SliderFirstValueBad(SliderNumbers(l)[1])

\* a reset on every frame
CountAlwaysChanged(numSliders, lastKnown) == TRUE

\* a reset only when the frame has more channels than remembered
CountGrew(numSliders, lastKnown) == numSliders > lastKnown

\* lines 431 and 341: the frame's channel count is not the remembered one
CountChanged(numSliders, lastKnown) == numSliders # lastKnown

\* a handler that takes every line that is not a button frame for a slider frame
IgnoredNever(l) == FALSE

\* handleLine, line 419: the line is not a slider frame either and is dropped
Ignored(l) == ~MatchesExpectedPattern[l]

\* handleLine, lines 411-431 (and handleButtons, lines 325-341): classify the line,
\* split it and compare its channel count with the remembered one
handleLine(k) ==
  /\ ~crashed
  /\ disp[k].pc = "match"
  /\ LET l == disp[k].line IN
       IF IsButtonLine(l)
         THEN LET n == Len(ButtonNumbers(l)) IN
              /\ disp' = [disp EXCEPT ![k] =
                   [@ EXCEPT !.pc = IF CountChanged(n, lastKnownNumButtons)
                                      THEN "bsetcount" ELSE "bloop",
                             !.idx = 1,
                             !.ignored = FALSE,
                             !.preCount = lastKnownNumButtons,
                             !.preVals = currentButtonValues,
                             !.due = buttonResyncDue,
                             !.prevFrame = lastButtonFrame]]
              /\ buttonResyncDue' = FALSE
              /\ UNCHANGED resyncDue
         ELSE IF Ignored(l)
           THEN /\ disp' = [disp EXCEPT ![k] = AtSelect([@ EXCEPT !.ignored = TRUE])]
                /\ UNCHANGED <<resyncDue, buttonResyncDue>>
           ELSE LET n == Len(SliderNumbers(l)) IN
                /\ disp' = [disp EXCEPT ![k] =
                     [@ EXCEPT !.pc = IF CountChanged(n, lastKnownNumSliders)
                                        THEN "setcount" ELSE "loop",
                               !.idx = 1,
                               !.ignored = FALSE,
                               !.preCount = lastKnownNumSliders,
                               !.preVals = currentSliderPercentValues,
                               !.prevLine = disp[k].last,
                               !.due = resyncDue /\ WellFormedSlider(l)]]
                /\ resyncDue' = (resyncDue /\ ~WellFormedSlider(l))
                /\ UNCHANGED buttonResyncDue
  /\ UNCHANGED <<config, link, trackers, subscr, rdr, pc, timers, counters, crashed,
                 lastButtonFrame, cyc>>

\* handleLine, line 433
setSliderCount(k) ==
  /\ ~crashed
  /\ disp[k].pc = "setcount"
  /\ lastKnownNumSliders' = Len(SliderNumbers(disp[k].line))
  /\ disp' = [disp EXCEPT ![k] = [@ EXCEPT !.pc = "alloc"]]
  /\ UNCHANGED <<config, link, currentSliderPercentValues, lastKnownNumButtons,
                 currentButtonValues, subscr, rdr, pc, timers, counters, crashed, ghosts>>

\* handleLine, lines 434-439
allocSliders(k) ==
  /\ ~crashed
  /\ disp[k].pc = "alloc"
  /\ currentSliderPercentValues' = [i \in 1..Len(SliderNumbers(disp[k].line)) |-> Unset]
  /\ disp' = [disp EXCEPT ![k] = [@ EXCEPT !.pc = "loop"]]
  /\ UNCHANGED <<config, link, lastKnownNumSliders, lastKnownNumButtons,
                 currentButtonValues, subscr, rdr, pc, timers, counters, crashed, ghosts>>

\* no noise filter: every reading counts as a move
SliderMovedAlways(stored, scalar, level) == TRUE

\* line 468: the channel's reading changes the stored state
SliderMoved(stored, scalar, level) == SignificantlyDifferent(stored, scalar, level)

\* handleLine, lines 444-482: one iteration of the loop over the readings
sliderLoop(k) ==
  /\ ~crashed
  /\ disp[k].pc = "loop"
  /\ LET d == disp[k]
         numbers == SliderNumbers(d.line)
         i == d.idx
         scalar == normalizedScalar(numbers[i], config.invert)
     IN IF i = 1 /\ SliderFirstValueBad(numbers[i])
          THEN /\ disp' = [disp EXCEPT ![k] = AtSelect([@ EXCEPT !.last = 0])]
               /\ UNCHANGED <<currentSliderPercentValues, crashed>>
          ELSE IF i > Len(currentSliderPercentValues)
            THEN /\ crashed' = TRUE
                 /\ UNCHANGED <<disp, currentSliderPercentValues>>
            ELSE LET moved == SliderMoved(currentSliderPercentValues[i], scalar, config.noise)
                 IN /\ currentSliderPercentValues' =
                         IF moved THEN [currentSliderPercentValues EXCEPT ![i] = scalar]
                                  ELSE currentSliderPercentValues
                    /\ disp' = [disp EXCEPT ![k] =
                         [@ EXCEPT !.events = IF moved
                                     THEN Append(@, [SliderID |-> i - 1, PercentValue |-> scalar])
                                     ELSE @,
                                   !.idx = i + 1,
                                   !.pc = IF i = Len(numbers) THEN "loopdone" ELSE "loop"]]
                    /\ UNCHANGED crashed
  /\ UNCHANGED <<config, link, lastKnownNumSliders, lastKnownNumButtons,
                 currentButtonValues, subscr, rdr, pc, timers, counters, ghosts>>

\* handleLine, lines 485-486: with events to deliver, range over the consumers
\* registered now
sliderLoopDone(k) ==
  /\ ~crashed
  /\ disp[k].pc = "loopdone"
  /\ disp' = [disp EXCEPT ![k] =
       LET d == [@ EXCEPT !.last = IF disp[k].hit \/ disp[k].reloaded THEN 0 ELSE disp[k].line] IN
       IF Len(d.events) > 0 /\ sliderMoveConsumers > 0
         THEN [d EXCEPT !.pc = "deliver", !.cons = sliderMoveConsumers, !.ci = 1, !.ei = 1]
         ELSE AtSelect(d)]
  /\ UNCHANGED <<config, link, trackers, subscr, rdr, pc, timers, counters, crashed, ghosts>>

\* the event a subscriber receives, tagged with the read number of its line
Tagged(d, e) == [seq |-> d.seq, SliderID |-> e.SliderID, PercentValue |-> e.PercentValue]

\* handleLine, lines 486-490: consumer by consumer, event by event
Advance(d) ==
  IF d.ei < Len(d.events) THEN [d EXCEPT !.ei = @ + 1]
  ELSE IF d.ci < d.cons THEN [d EXCEPT !.ci = @ + 1, !.ei = 1]
  ELSE AtSelect(d)

\* handleLine, line 488: the send on an unbuffered channel completes when the
\* subscriber receives
deliver(k) ==
  /\ ~crashed
  /\ disp[k].pc = "deliver"
  /\ disp[k].ci \notin gone
  /\ sublog' = [sublog EXCEPT ![disp[k].ci] = Append(@, Tagged(disp[k], disp[k].events[disp[k].ei]))]
  /\ disp' = [disp EXCEPT ![k] = Advance(@)]
  /\ UNCHANGED <<config, link, trackers, sliderMoveConsumers, gone, rdr, pc, timers,
                 counters, crashed, ghosts>>

\* SubscribeToSliderMoveEvents, lines 155-160
SubscribeToSliderMoveEvents ==
  /\ ~crashed
  /\ sliderMoveConsumers < MaxSubs
  /\ sliderMoveConsumers' = sliderMoveConsumers + 1
  /\ UNCHANGED <<config, link, trackers, gone, sublog, disp, rdr, pc, timers, counters,
                 crashed, ghosts>>

\* a subscriber stops receiving from its channel for good
SubscriberLeaves(s) ==
  /\ ~crashed
  /\ s \in 1..sliderMoveConsumers
  /\ s \notin gone
  /\ gone' = gone \cup {s}
  /\ UNCHANGED <<config, link, trackers, sliderMoveConsumers, sublog, disp, rdr, pc, timers,
                 counters, crashed, ghosts>>

\* ---------------------------------------------------------- handleButtons
\* handleButtons, line 343
setButtonCount(k) ==
  /\ ~crashed
  /\ disp[k].pc = "bsetcount"
  /\ lastKnownNumButtons' = Len(ButtonNumbers(disp[k].line))
  /\ disp' = [disp EXCEPT ![k] = [@ EXCEPT !.pc = "balloc"]]
  /\ UNCHANGED <<config, link, lastKnownNumSliders, currentSliderPercentValues,
                 currentButtonValues, subscr, rdr, pc, timers, counters, crashed, ghosts>>

\* handleButtons, lines 344-349
allocButtons(k) ==
  /\ ~crashed
  /\ disp[k].pc = "balloc"
  /\ currentButtonValues' = [i \in 1..Len(ButtonNumbers(disp[k].line)) |-> UnsetButton]
  /\ disp' = [disp EXCEPT ![k] = [@ EXCEPT !.pc = "bloop"]]
  /\ UNCHANGED <<config, link, lastKnownNumSliders, currentSliderPercentValues,
                 lastKnownNumButtons, subscr, rdr, pc, timers, counters, crashed, ghosts>>

\* handleButtons, lines 354-388: one iteration of the loop over the readings
buttonLoop(k) ==
  /\ ~crashed
  /\ disp[k].pc = "bloop"
  /\ LET d == disp[k]
         numbers == ButtonNumbers(d.line)
         i == d.idx
     IN IF i = 1 /\ ButtonFirstValueBad(numbers[i])
          THEN /\ disp' = [disp EXCEPT ![k] = AtSelect(@)]
               /\ UNCHANGED <<currentButtonValues, crashed>>
          ELSE IF i > Len(currentButtonValues)
            THEN /\ crashed' = TRUE
                 /\ UNCHANGED <<disp, currentButtonValues>>
            ELSE LET changed == currentButtonValues[i] # numbers[i]
                 IN /\ currentButtonValues' =
                         IF changed THEN [currentButtonValues EXCEPT ![i] = numbers[i]]
                                    ELSE currentButtonValues
                    /\ disp' = [disp EXCEPT ![k] =
                         [@ EXCEPT !.events = IF changed
                                     THEN Append(@, [ButtonID |-> i - 1,
                                                     PreviousValue |-> currentButtonValues[i],
                                                     ButtonValue |-> numbers[i]])
                                     ELSE @,
                                   !.idx = i + 1,
                                   !.ei = 1,
                                   !.pc = IF i < Len(numbers) THEN "bloop"
                                          ELSE IF changed \/ Len(d.events) > 0 THEN "btrigger"
                                          ELSE "bdone"]]
                    /\ UNCHANGED crashed
  /\ UNCHANGED <<config, link, lastKnownNumSliders, currentSliderPercentValues,
                 lastKnownNumButtons, subscr, rdr, pc, timers, counters, ghosts>>

\* a trigger on every event with a non-zero new value
IsRisingEdgeFromAny(e) == e.ButtonValue # 0

\* handleButtons, line 391: the event is a press
IsRisingEdge(e) == e.PreviousValue = 0 /\ e.ButtonValue # 0

\* handleButtons, lines 390-394, one event of moveEvents: a press calls
\* pressedButton, which panics when the key-input mechanism fails (lines 278-281
\* and 316-319)
buttonTrigger(k) ==
  /\ ~crashed
  /\ disp[k].pc = "btrigger"
  /\ LET d == disp[k]
         e == d.events[d.ei]
         after == [d EXCEPT !.ei = @ + 1,
                            !.pc = IF d.ei < Len(d.events) THEN "btrigger" ELSE "bdone"]
     IN IF IsRisingEdge(e)
          THEN /\ disp' = [disp EXCEPT ![k] = [after EXCEPT !.presses = Append(@, e)]]
               /\ crashed' \in BOOLEAN
          ELSE /\ disp' = [disp EXCEPT ![k] = after]
               /\ UNCHANGED crashed
  /\ UNCHANGED <<config, link, trackers, subscr, rdr, pc, timers, counters, ghosts>>

\* handleButtons, line 406: return to the dispatcher loop
buttonDone(k) ==
  /\ ~crashed
  /\ disp[k].pc = "bdone"
  /\ lastButtonFrame' = ButtonNumbers(disp[k].line)
  /\ disp' = [disp EXCEPT ![k] = AtSelect(@)]
  /\ UNCHANGED <<config, link, trackers, subscr, rdr, pc, timers, counters, crashed,
                 resyncDue, buttonResyncDue, cyc>>

\* ------------------------------------------------------ setupOnConfigReload
\* where a dispatcher is while it handles a slider frame, a button frame
SliderPcs == {"setcount", "alloc", "loop", "loopdone", "deliver"}
ButtonPcs == {"bsetcount", "balloc", "bloop", "btrigger", "bdone"}

\* the dispatchers, with the frames in hand marked as overtaken by a delayed reset
MarkHit(pcs) ==
  [k \in DispIds |-> IF disp[k].pc \in pcs THEN [disp[k] EXCEPT !.hit = TRUE] ELSE disp[k]]

\* the dispatchers, none of them remembering a slider frame handled before
Forgetting(ds) == [k \in DispIds |-> [ds[k] EXCEPT !.last = 0]]

\* the dispatchers, with the frames in hand marked as overtaken by a reload
MarkReloaded ==
  [k \in DispIds |-> IF disp[k].pc \in SliderPcs \cup ButtonPcs
                       THEN [disp[k] EXCEPT !.reloaded = TRUE] ELSE disp[k]]

\* line 184-185: the configured port or baud rate is not the one of connOptions
ParamsChanged(cfg, opts) == cfg.port # opts.port \/ cfg.baud # opts.baud

\* The configuration collaborator installs a snapshot and notifies; the reload
\* goroutine receives the notification at its select, line 170.
ConfigReloaded(c) ==
  /\ ~crashed
  /\ pc["reload"] = "select"
  /\ nreloads < MaxReloads
  /\ c \in Snapshots
  /\ config' = c
  /\ nreloads' = nreloads + 1
  /\ pc' = [pc EXCEPT !["reload"] = "got"]
  /\ cyc' = [active |-> TRUE, wasConnected |-> connected,
             changed |-> ParamsChanged(c, connOptions), target |-> OptionsOf(c),
             stops |-> 0, starts |-> 0, result |-> "none",
             quiet |-> pc["client"] = "idle", client |-> cyc.client]
  /\ disp' = Forgetting(MarkReloaded)
  /\ UNCHANGED <<link, trackers, subscr, rdr, timers, nread, ncalls, crashed,
                 lastButtonFrame, resyncDue,
                 buttonResyncDue>>

\* lines 177-185: launch the delayed reset, then compare the connection parameters
reloadHandle ==
  /\ ~crashed
  /\ pc["reload"] = "got"
  /\ timers' = <<timers[1] + 1, timers[2]>>
  /\ pc' = [pc EXCEPT !["reload"] =
              IF ParamsChanged(config, connOptions) THEN "stop" ELSE "select"]
  /\ UNCHANGED <<config, link, trackers, subscr, disp, rdr, counters, crashed, ghosts>>

\* delayed reset, line 179
resetSliders ==
  /\ ~crashed
  /\ timers[1] > 0
  /\ lastKnownNumSliders' = 0
  /\ timers' = <<timers[1] - 1, timers[2] + 1>>
  /\ resyncDue' = TRUE
  /\ disp' = Forgetting(MarkHit(SliderPcs))
  /\ UNCHANGED <<config, link, currentSliderPercentValues, lastKnownNumButtons,
                 currentButtonValues, subscr, rdr, pc, counters, crashed,
                 lastButtonFrame, buttonResyncDue, cyc>>

\* delayed reset, line 180
resetButtons ==
  /\ ~crashed
  /\ timers[2] > 0
  /\ lastKnownNumButtons' = 0
  /\ timers' = <<timers[1], timers[2] - 1>>
  /\ buttonResyncDue' = TRUE
  /\ disp' = MarkHit(ButtonPcs)
  /\ UNCHANGED <<config, link, lastKnownNumSliders, currentSliderPercentValues,
                 currentButtonValues, subscr, rdr, pc, counters, crashed,
                 lastButtonFrame, resyncDue, cyc>>

\* ----------------------------------------------------------- specifications
\* the steps of one dispatcher that handle a slider frame, a button frame
SliderFrameStep(k) ==
  \/ setSliderCount(k)
  \/ allocSliders(k)
  \/ sliderLoop(k)
  \/ sliderLoopDone(k)

ButtonFrameStep(k) ==
  \/ setButtonCount(k)
  \/ allocButtons(k)
  \/ buttonLoop(k)
  \/ buttonTrigger(k)
  \/ buttonDone(k)

\* The whole engine: any calls of the client, any reloads, any lines.  Its state
\* space is out of reach; the four specifications below each restrict what the
\* environment does, and every step of theirs is a step of Next.
Next ==
  \/ ClientCall
  \/ \E p \in Callers : Stop(p)
  \/ \E p \in Callers : Start(p)
  \/ \E p \in Callers : StartOpen(p)
  \/ \E p \in Callers : StartConn(p)
  \/ \E k \in DispIds : DispInit(k)
  \/ \E k \in DispIds : ReadLine(k, LineIds)
  \/ \E k \in DispIds : RecvLine(k)
  \/ \E k \in DispIds, p \in Callers : RecvStop(k, p)
  \/ \E k \in DispIds : closeConn(k)
  \/ \E k \in DispIds : closeDone(k)
  \/ \E k \in DispIds : handleLine(k)
  \/ \E k \in DispIds : SliderFrameStep(k)
  \/ \E k \in DispIds : deliver(k)
  \/ \E k \in DispIds : ButtonFrameStep(k)
  \/ SubscribeToSliderMoveEvents
  \/ \E s \in 1..MaxSubs : SubscriberLeaves(s)
  \/ \E c \in Snapshots : ConfigReloaded(c)
  \/ reloadHandle
  \/ resetSliders
  \/ resetButtons

Spec == Init /\ [][Next]_vars

\* One connection: the client calls Start until the link is open and never calls
\* Stop; a reload arrives while connected and leaves port and baud rate alone.  A
\* single dispatcher handles every line the link carries, and the link carries
\* frames without a read error; nobody subscribes.
ConnectCall == ClientCall /\ ~connected /\ pc'["client"] = "start"

OpenLink == StartOpen("client") /\ conn' # NoConn

\* the frames of the firmware and the torn line, without the garbage
FrameLines == 1..8

ReloadKeepingLink(c) == connected /\ ~ParamsChanged(c, connOptions) /\ ConfigReloaded(c)

\* the reader of the connection reads a frame: the link does not fail
ReadFrame(k) == ReadLine(k, FrameLines) /\ rdr'[k].pc = "send"

NextTracker ==
  \/ ConnectCall
  \/ Start("client")
  \/ OpenLink
  \/ StartConn("client")
  \/ \E k \in DispIds : DispInit(k)
  \/ \E k \in DispIds : ReadFrame(k)
  \/ \E k \in DispIds : RecvLine(k)
  \/ \E k \in DispIds : handleLine(k)
  \/ \E k \in DispIds : SliderFrameStep(k)
  \/ \E k \in DispIds : ButtonFrameStep(k)
  \/ \E c \in Snapshots : ReloadKeepingLink(c)
  \/ reloadHandle
  \/ resetSliders
  \/ resetButtons

TrackerSpec == Init /\ [][NextTracker]_vars

\* The connection life cycle under reloads: the client calls Start until the link
\* is open, the reload goroutine stops and restarts the connection; the links
\* carry nothing but garbage, so that no frame is handled.
GarbageLines == {9}

NextControl ==
  \/ ConnectCall
  \/ \E p \in Callers : Start(p)
  \/ \E p \in Callers : StartOpen(p)
  \/ \E p \in Callers : StartConn(p)
  \/ Stop("reload")
  \/ \E k \in DispIds : DispInit(k)
  \/ \E k \in DispIds : ReadLine(k, GarbageLines)
  \/ \E k \in DispIds : RecvLine(k)
  \/ \E k \in DispIds : RecvStop(k, "reload")
  \/ \E k \in DispIds : closeConn(k)
  \/ \E k \in DispIds : closeDone(k)
  \/ \E k \in DispIds : handleLine(k)
  \/ \E c \in Snapshots : ConfigReloaded(c)
  \/ reloadHandle
  \/ resetSliders
  \/ resetButtons

ControlSpec == Init /\ [][NextControl]_vars

\* The connection life cycle under the client: it calls Start and Stop in any
\* order; no reload, no subscriber, garbage on the links.
NextLifecycle ==
  \/ ClientCall
  \/ Stop("client")
  \/ Start("client")
  \/ StartOpen("client")
  \/ StartConn("client")
  \/ \E k \in DispIds : DispInit(k)
  \/ \E k \in DispIds : ReadLine(k, GarbageLines)
  \/ \E k \in DispIds : RecvLine(k)
  \/ \E k \in DispIds : RecvStop(k, "client")
  \/ \E k \in DispIds : closeConn(k)
  \/ \E k \in DispIds : closeDone(k)
  \/ \E k \in DispIds : handleLine(k)

LifecycleSpec == Init /\ [][NextLifecycle]_vars

\* One connection whose link carries garbage among the frames: a slider frame, a
\* button frame, a line of letters and a slider line that ends without the CR.
NoisyLines == {2, 6, 9, 10}

NextNoise ==
  \/ ConnectCall
  \/ Start("client")
  \/ OpenLink
  \/ StartConn("client")
  \/ \E k \in DispIds : DispInit(k)
  \/ \E k \in DispIds : ReadLine(k, NoisyLines)
  \/ \E k \in DispIds : RecvLine(k)
  \/ \E k \in DispIds : handleLine(k)
  \/ \E k \in DispIds : SliderFrameStep(k)
  \/ \E k \in DispIds : ButtonFrameStep(k)

NoiseSpec == Init /\ [][NextNoise]_vars

\* Delivery across reconnects: the client alone calls Start and Stop, the links
\* carry slider frames of one and of two channels, subscribers come and go; the
\* configuration is never reloaded.
SliderLines == {1, 2}

NextDelivery ==
  \/ ClientCall
  \/ Stop("client")
  \/ Start("client")
  \/ StartOpen("client")
  \/ StartConn("client")
  \/ \E k \in DispIds : DispInit(k)
  \/ \E k \in DispIds : ReadLine(k, SliderLines)
  \/ \E k \in DispIds : RecvLine(k)
  \/ \E k \in DispIds : RecvStop(k, "client")
  \/ \E k \in DispIds : closeConn(k)
  \/ \E k \in DispIds : closeDone(k)
  \/ \E k \in DispIds : handleLine(k)
  \/ \E k \in DispIds : SliderFrameStep(k)
  \/ \E k \in DispIds : deliver(k)
  \/ SubscribeToSliderMoveEvents
  \/ \E s \in 1..MaxSubs : SubscriberLeaves(s)

DeliverySpec == Init /\ [][NextDelivery]_vars

\* ------------------------------------------------------------------ claims
\* ---- the life cycle under the client (LifecycleSpec)
\* C1: a Stop called while sio.connected is false returns to its caller at once: it
\* sends nothing on stopChannel, closes nothing, and leaves the connection fields,
\* both trackers, the subscribers and every dispatcher as they were.
C1_StopWhileDisconnectedIsNoOp ==
  [][\A p \in Callers :
       (pc[p] = "stop" /\ pc'[p] # "stop" /\ ~connected)
         => /\ pc'[p] = AfterStop(p)
            /\ UNCHANGED <<config, link, trackers, subscr, disp, rdr, timers>>]_vars

\* a call of the client has returned that was a Stop (a Start would have set
\* connOptions), and no link was ever opened
C1_Witness ==
  /\ pc["client"] = "idle"
  /\ ncalls > 0
  /\ connOptions = ZeroOptions
  /\ nopened = 0
  /\ ~connected

\* C13: a Start called while sio.connected is true returns the error "connection
\* already active" at once: it opens nothing, leaves the connection parameters and
\* the handle as they are, and launches no dispatcher and no reader.
C13_StartWhileConnectedIsRefused ==
  [][\A p \in Callers :
       (pc[p] = "start" /\ pc'[p] # "start" /\ connected)
         => /\ pc'[p] = AfterStart(p)
            /\ cyc' = CycStart(p, "already active")
            /\ UNCHANGED <<config, link, trackers, subscr, disp, rdr, timers>>]_vars

\* a Start of the client has been refused and the connection is as it was
C13_Witness ==
  /\ pc["client"] = "idle"
  /\ cyc.client = "already active"
  /\ connected
  /\ nopened = 1

\* the reader of dispatcher k has ended on an error while its connection is the
\* established one and the link is still open
ReaderEnded(k) ==
  /\ rdr[k].pc = "done"
  /\ connected
  /\ conn # NoConn
  /\ disp[k].conn = conn
  /\ conn \in openLinks

\* C15: a read that fails touches nothing but the reader, which ends.  From then
\* on, while the link is open, the reader hands no line to its dispatcher, the
\* connection stays connected on the same handle and no link is opened, a Start
\* begins only as a call of the client, a pending Stop can be received by the
\* dispatcher at its select, and the close that follows closes the link.
C15_ReadFailureLeavesConnection ==
  [][\A k \in DispIds :
       /\ (rdr[k].pc = "read" /\ rdr'[k].pc = "done")
            => UNCHANGED <<config, link, trackers, subscr, disp, pc, timers, crashed>>
       /\ ReaderEnded(k) =>
            /\ rdr'[k] = rdr[k]
            /\ disp[k].pc # "match" => disp'[k].pc # "match"
            /\ connected' /\ conn' = conn /\ nopened' = nopened
            /\ (pc["client"] # "start" /\ pc'["client"] = "start") => ncalls' = ncalls + 1
            /\ (pc["client"] = "stop_send" /\ disp[k].pc = "select")
                 => ENABLED RecvStop(k, "client")
            /\ \A j \in DispIds :
                 (disp[j].pc = "close" /\ disp'[j] # disp[j])
                   => conn \notin openLinks' /\ ~crashed']_vars

\* the reader ended while the link was open, and the dispatcher has since taken
\* a stop signal and is about to close the link
C15_Witness ==
  \E k \in DispIds :
    /\ ReaderEnded(k)
    /\ disp[k].pc = "close"

\* C17: no two dispatchers are at their select, where a stop signal or a line is
\* received, at the same time; a dispatcher whose connection has been closed is
\* not at its select any more.
C17_OneDispatcherAtSelect ==
  /\ \A j, k \in DispIds : (j # k /\ disp[j].pc = "select") => disp[k].pc # "select"
  /\ \A k \in DispIds :
       (disp[k].pc = "select" /\ disp[k].conn # NoConn) => disp[k].conn \in openLinks

\* C19: a dispatcher that has taken a stop signal and is about to run close()
\* finds a handle in sio.conn, and the link of that handle is still open: close()
\* has not run on it before.
C19_CloseFindsOpenHandle ==
  \A k \in DispIds :
    disp[k].pc = "close" => conn # NoConn /\ conn \in openLinks

\* ---- garbage among the frames (NoiseSpec)
\* C14: a line that matches neither the button grammar nor the slider grammar is
\* dropped by handleLine: the dispatcher is back at its select with no event and no
\* press to act on, nothing has failed, and both trackers and the subscribers are
\* as they were.
C14_GarbageIsDropped ==
  [][\A k \in DispIds :
       (/\ disp[k].pc = "match"
        /\ ~buttonLinePattern(LINES[disp[k].line])
        /\ ~expectedLinePattern(LINES[disp[k].line])
        /\ disp'[k] # disp[k])
         => /\ disp'[k].pc = "select"
            /\ disp'[k].events = <<>>
            /\ disp'[k].presses = <<>>
            /\ ~crashed'
            /\ UNCHANGED <<trackers, subscr, link>>]_vars

\* a line has been dropped while the slider tracker held two values
C14_Witness ==
  \E k \in DispIds :
    /\ disp[k].pc = "select"
    /\ disp[k].ignored
    /\ lastKnownNumSliders = 2
    /\ Len(currentSliderPercentValues) = 2
    /\ currentSliderPercentValues[1] # Unset

\* ---- delivery across reconnects (DeliverySpec)
\* a dispatcher blocked for good: its hand-off is to a subscriber that no longer receives
Stuck(k) == disp[k].pc = "deliver" /\ disp[k].ci \in gone

\* C2: a Stop made while connected returns, whatever the subscribers do.  Stop
\* returns when a dispatcher receives from stopChannel, so while the call waits
\* there some dispatcher is still able to come back to its select.
C2_PendingStopCanReturn ==
  \A p \in Callers :
    pc[p] = "stop_send" => \E k \in DispIds : disp[k].pc # "none" /\ ~Stuck(k)

\* a subscriber's log is in read order: by the read number of the line, and
\* within one line by channel
C9_InReadOrder(log) ==
  \A i, j \in 1..Len(log) :
    i < j => \/ log[i].seq < log[j].seq
             \/ log[i].seq = log[j].seq /\ log[i].SliderID < log[j].SliderID

\* C9: across any Starts, Stops and reconnects every subscriber receives the
\* events in the order their lines were read from the device.
C9_SubscriberSeesReadOrder ==
  \A s \in 1..MaxSubs : C9_InReadOrder(sublog[s])

\* a dispatcher that is working on a frame
Handling(k) == disp[k].pc \in SliderPcs \cup ButtonPcs

\* C10: while the events of a frame are being handed to the subscribers, in
\* registration order, no line read after that frame's line is being processed.
C10_NoLaterLineDuringHandOff ==
  \A k \in DispIds :
    disp[k].pc = "deliver"
      => /\ \A s \in 1..MaxSubs :
              s < disp[k].ci => \A e \in 1..Len(disp[k].events) :
                \E i \in 1..Len(sublog[s]) : sublog[s][i] = Tagged(disp[k], disp[k].events[e])
         /\ \A j \in DispIds \ {k} : ~(Handling(j) /\ disp[j].seq > disp[k].seq)

\* C18: while the connection is disconnected after a Stop, no dispatcher whose
\* link has been closed is handling a line: none is handed to handleLine, no
\* tracker is updated from it and no event of it is delivered.
C18_ClosedConnectionIsSilent ==
  \A k \in DispIds :
    (/\ ~connected
     /\ conn = NoConn
     /\ disp[k].conn # NoConn
     /\ disp[k].conn \notin openLinks)
      => ~Handling(k)

\* C20: outside the two statements that resynchronise a tracker, a remembered
\* count that is not zero is the length of the tracker's array, and the index a
\* dispatcher is about to use for the frame it is processing is within the array.
C20_FrameIndexInRange ==
  /\ (lastKnownNumSliders # 0 /\ \A k \in DispIds : disp[k].pc # "alloc")
       => Len(currentSliderPercentValues) = lastKnownNumSliders
  /\ (lastKnownNumButtons # 0 /\ \A k \in DispIds : disp[k].pc # "balloc")
       => Len(currentButtonValues) = lastKnownNumButtons
  /\ \A k \in DispIds :
       /\ disp[k].pc = "loop" => disp[k].idx <= Len(currentSliderPercentValues)
       /\ disp[k].pc = "bloop" => disp[k].idx <= Len(currentButtonValues)

\* ---- reconnect on reload (ControlSpec)
\* the reload goroutine is through with the last notification, which arrived
\* while connected, and the client made no call of its own in the meantime
C8_CycleDone ==
  /\ cyc.active
  /\ pc["reload"] = "select"
  /\ cyc.wasConnected
  /\ cyc.quiet

\* C8: a reload observed while connected, with a port or baud rate that differs
\* from the open connection's, makes the reload goroutine call Stop once and then
\* Start once, and that Start opens the link with the new parameters (a Start
\* that the operating system refuses is not held against the claim); with the
\* same port and baud rate it calls neither.
C8_ReloadReconnects ==
  C8_CycleDone =>
    IF cyc.changed
      THEN /\ cyc.stops = 1
           /\ cyc.starts = 1
           /\ \/ cyc.result = "open failed"
              \/ cyc.result = "ok" /\ connOptions = cyc.target
      ELSE cyc.stops = 0 /\ cyc.starts = 0

\* C16: once the Start of a reconnect has failed, the connection is disconnected
\* (or the dispatcher that took the stop signal is closing it), and the port and
\* baud rate the reload goroutine compares the next notification with are those
\* of the failed attempt, so that a notification repeating them starts no cycle.
C16_FailedReconnectIsNotRetried ==
  (/\ cyc.active /\ cyc.changed /\ cyc.quiet
   /\ pc["reload"] = "select"
   /\ cyc.starts = 1
   /\ cyc.result \in {"open failed", "already active"})
    => /\ ~connected \/ \E k \in DispIds : disp[k].pc \in {"close", "closed"}
       /\ ~ParamsChanged(config, connOptions)

\* ---- the trackers, one connection (TrackerSpec)
\* the presses a button frame calls for, going by the values on the wire: the
\* channels that were 0 in the frame before and are not 0 in this one, in order
C3_WireEdges(prev, numbers) ==
  LET all == [i \in 1..Len(numbers) |->
                [ButtonID |-> i - 1, PreviousValue |-> prev[i], ButtonValue |-> numbers[i]]]
  IN SelectSeq(all, LAMBDA e : e.PreviousValue = 0 /\ e.ButtonValue # 0)

C4_Scalars(d) ==
  LET numbers == SliderNumbers(d.line)
  IN [i \in 1..Len(numbers) |-> normalizedScalar(numbers[i], config.invert)]

\* the channels of a frame that differ from the stored value by more than the
\* epsilon, the stored value being the one before the frame
C4_Differs(d, i) == SignificantlyDifferent(d.preVals[i], C4_Scalars(d)[i], config.noise)

\* C4: a well-formed slider frame with the remembered channel count yields exactly
\* one event, in channel order, for each channel whose scalar differs from the
\* stored one by more than the noise epsilon (or whose stored value is unset), no
\* event for the others, and stores the new scalar for exactly those channels.  (The
\* configuration the frame is compared under is not replaced while it is handled.)
C4_EventsAreTheChanges ==
  \A k \in DispIds :
    LET d == disp[k]
        sc == C4_Scalars(d)
        all == [i \in 1..Len(sc) |-> [SliderID |-> i - 1, PercentValue |-> sc[i]]]
    IN (d.pc = "loopdone" /\ Len(sc) = d.preCount /\ ~d.reloaded)
         => /\ d.events = SelectSeq(all, LAMBDA e : C4_Differs(d, e.SliderID + 1))
            /\ currentSliderPercentValues =
                 [i \in 1..Len(sc) |-> IF C4_Differs(d, i) THEN sc[i] ELSE d.preVals[i]]

\* a frame just handled in which one channel moved and another stayed within the noise
C4_Witness ==
  \E k \in DispIds :
    LET d == disp[k] IN
      /\ d.pc = "loopdone"
      /\ Len(C4_Scalars(d)) = d.preCount
      /\ ~d.reloaded
      /\ Len(d.events) = 1
      /\ d.preCount = 2
      /\ \A i \in 1..2 : d.preVals[i] # Unset

\* C5: a well-formed frame whose channel count N is not the remembered one sets
\* every stored value to unset before it compares the first reading, and ends with
\* N events, one per channel in channel order, and N remembered (unless a delayed
\* reset has overwritten the count in the meantime); sliders and buttons alike.
C5_CountChangeResyncs ==
  \A k \in DispIds :
    LET d == disp[k] IN
      /\ (d.pc \in {"loop", "loopdone"} /\ WellFormedSlider(d.line)
            /\ Len(SliderNumbers(d.line)) # d.preCount)
           => LET n == Len(SliderNumbers(d.line)) IN
              /\ Len(currentSliderPercentValues) = n
              /\ ~d.hit => lastKnownNumSliders = n
              /\ (d.pc = "loop" /\ d.idx = 1)
                   => \A i \in 1..n : currentSliderPercentValues[i] = Unset
              /\ d.pc = "loopdone"
                   => /\ Len(d.events) = n
                      /\ \A i \in 1..n : d.events[i].SliderID = i - 1
      /\ (d.pc \in {"bloop", "btrigger", "bdone"} /\ Len(ButtonNumbers(d.line)) # d.preCount)
           => LET n == Len(ButtonNumbers(d.line)) IN
              /\ Len(currentButtonValues) = n
              /\ ~d.hit => lastKnownNumButtons = n
              /\ (d.pc = "bloop" /\ d.idx = 1)
                   => \A i \in 1..n : currentButtonValues[i] = UnsetButton
              /\ d.pc \in {"btrigger", "bdone"}
                   => /\ Len(d.events) = n
                      /\ \A i \in 1..n : /\ d.events[i].ButtonID = i - 1
                                         /\ d.events[i].PreviousValue = UnsetButton

\* a slider frame just handled that had fewer channels than the frames before it
C5_Witness ==
  \E k \in DispIds :
    LET d == disp[k] IN
      /\ d.pc = "loopdone"
      /\ d.preCount > Len(SliderNumbers(d.line))
      /\ Len(d.events) = Len(SliderNumbers(d.line))

\* a slider line that passes the grammar with a first reading above 1023
C6_Torn(l) == IsSliderLine(l) /\ SliderFirstValueBad(SliderNumbers(l)[1])

\* C6: the step that discards a slider line for its first reading leaves the
\* tracker as it was before the line: the remembered count and every stored value
\* (no delayed reset having run in the meantime), and no event.
C6_TornFrameChangesNothing ==
  [][\A k \in DispIds :
       (disp[k].pc = "loop" /\ disp'[k].pc = "select" /\ C6_Torn(disp[k].line) /\ ~disp[k].hit)
         => /\ lastKnownNumSliders' = disp[k].preCount
            /\ currentSliderPercentValues' = disp[k].preVals
            /\ disp[k].events = <<>>]_vars

\* C7: the first well-formed slider frame that handleLine starts on after the
\* delayed reset of the remembered count ends with one event for every channel.
C7_FirstFrameAfterResetResyncs ==
  \A k \in DispIds :
    (disp[k].pc = "loopdone" /\ disp[k].due)
      => Len(disp[k].events) = Len(SliderNumbers(disp[k].line))

\* C21: a button frame that is the first one handleButtons starts on after the
\* delayed reset of the remembered count, or whose channel count is not the
\* remembered one (the first frame of a connection, a new count), ends without
\* a call of pressedButton, and every event of it has the previous value unset.
C21_FirstFrameAfterResetIsSilent ==
  \A k \in DispIds :
    LET d == disp[k] IN
      (d.pc = "bdone" /\ (d.due \/ Len(ButtonNumbers(d.line)) # d.preCount))
        => /\ d.presses = <<>>
           /\ \A i \in 1..Len(d.events) : d.events[i].PreviousValue = UnsetButton

\* C11: the step of handleButtons that calls pressedButton for a press leaves the
\* process running whether or not the key-input mechanism works, so that the
\* dispatcher goes on to its select and to the next line.
C11_KeyFailureIsConfined ==
  [][\A k \in DispIds :
       (disp[k].pc = "btrigger" /\ IsRisingEdge(disp[k].events[disp[k].ei])
          /\ disp'[k] # disp[k])
         => ~crashed']_vars

====
